---- MODULE Spec2Model ----
(***************************************************************************)
(* dustcloud: DNS traffic monitor.                                         *)
(*                                                                         *)
(* The module models the resolver classifier (capture/dns_providers.rs),   *)
(* the capture filter (capture/filter.rs), the frame decoder (dns/mod.rs,  *)
(* net/mod.rs), the aggregator DnsTrafficData (tui/mod.rs), the capture    *)
(* loop (capture/mod.rs) and the program's control flow (main.rs).         *)
(*                                                                         *)
(* Abstractions: strings are TLA+ strings; f64 seconds are integers; a     *)
(* HashMap<K, u32> is a function on the finite set of its keys; the        *)
(* iteration order of a HashMap is a parameter of every operator that      *)
(* iterates one.                                                           *)
(***************************************************************************)
EXTENDS Integers, Sequences, FiniteSets, TLC

(***************************************************************************)
(* Program constants.                                                      *)
(***************************************************************************)
\* tui/mod.rs:121  self.top_domains.truncate(10)
TopDomainsLimit == 10
\* tui/mod.rs:130  self.top_providers.truncate(5)
TopProvidersLimit == 5
\* tui/mod.rs:288  traffic_data.get_top_connections(5)
TopConnectionsLimit == 5
\* tui/mod.rs:100  if self.recent_queries.len() > 100
RecentLimit == 100
\* tui/mod.rs:197  DnsTrafficData::new(60.0)
WindowSeconds == 60

\* dns/mod.rs:32  let dns_data_start = 42
dns_data_start == 42
\* net/mod.rs:4  if data.len() < 34
MinIpFrame == 34
\* net/mod.rs:14  if ethertype != 0x0800
ETHERTYPE_IPV4 == 2048

(***************************************************************************)
(* Bounds of the model.                                                    *)
(***************************************************************************)
\* updates folded under the free workload
MaxUpdates == 4
\* a cyclic workload folds RecentLimit + StreamSlack events
StreamSlack == 2
\* a cyclic workload has up to TopDomainsLimit + ExtraDomains domain names
ExtraDomains == 2

\* frames the capture source delivers in one run of the program
MaxFrames == 2
\* the clock of a run of the program stops advancing at MaxClock
MaxClock == 1

MaxStream == RecentLimit + StreamSlack
NumDomains == TopDomainsLimit + ExtraDomains

(***************************************************************************)
(* State.                                                                  *)
(***************************************************************************)
VARIABLES
    \* DnsTrafficData (tui/mod.rs)
    provider_history,      \* HashMap<DnsProvider, Vec<(f64, f64)>>
    top_domains,           \* Vec<(String, u32)>
    top_providers,         \* Vec<(DnsProvider, u32)>
    queries_per_provider,  \* HashMap<DnsProvider, u32>
    domain_counts,         \* HashMap<String, u32>
    provider_counts,       \* HashMap<DnsProvider, u32>
    recent_queries,        \* VecDeque<TxEvent>, front first
    connections,           \* HashMap<String, u32>
    \* environment of the aggregator
    now,                   \* start_time.elapsed(), in seconds
    workload,              \* the traffic pattern offered to the aggregator
    folded,                \* history: every event update() was called with
    last_elapsed,          \* history: the `elapsed` read by the last update()
    \* a call of get_provider_for_ip
    classify_call,         \* [ip, order]: the argument and DNS_PROVIDERS' iteration order
    classify_ret,          \* <<>> before the call returns, <<tag>> after
    \* configuration and capture filter
    args,                  \* cli::Args
    capture_filter,        \* <<>> before build_capture_filter returns, <<filter>> after
    \* the process (main.rs)
    main_pc,               \* where the main thread is
    exited,                \* the process has ended
    exit_code,             \* its exit code, once exited
    exit_cause,            \* history: the path that ended the process
    reported,              \* the kinds of error written to stderr
    effects,               \* history: the work done so far (channel, thread, ...)
    terminal,              \* "cooked" or "raw" (raw mode and alternate screen)
    \* the capture loop (capture/mod.rs) and its sinks
    cap_pc,                \* where the capture loop is
    packet_count,          \* frames received
    received,              \* history: the frames next_packet() returned, in order
    stdout,                \* lines the immediate sink printed
    chan,                  \* mpsc channel: events sent and not yet received
    rx_alive,              \* the Receiver has not been dropped
    \* the presentation loop (tui/mod.rs) and its terminal input
    key_pending,           \* the key q is pressed and not yet read
    emitted,               \* history: every send() of the channeled sink, in order
    drain_mark             \* history: the queue when the last drain started

aggVars == <<provider_history, top_domains, top_providers, queries_per_provider,
             domain_counts, provider_counts, recent_queries, connections>>
envVars == <<now, workload, folded, last_elapsed>>
classifyVars == <<classify_call, classify_ret>>
filterVars == <<args, capture_filter>>

mainVars == <<main_pc, exited, exit_code, exit_cause, reported, effects, terminal>>
capVars == <<cap_pc, packet_count, received, stdout, chan, rx_alive>>
loopVars == <<key_pending, emitted, drain_mark>>

vars == <<aggVars, envVars, classifyVars, filterVars, mainVars, capVars, loopVars>>

(***************************************************************************)
(* Generic sequence helpers (Vec / VecDeque operations).                   *)
(***************************************************************************)
Reverse(s) == [i \in 1..Len(s) |-> s[Len(s) + 1 - i]]

Range(s) == {s[i] : i \in 1..Len(s)}

Min(a, b) == IF a <= b THEN a ELSE b

\* Vec::truncate(len): keeps the first len elements
truncate_keep_one_more(v, len) == SubSeq(v, 1, Min(Len(v), len + 1))

truncate(v, len) == SubSeq(v, 1, Min(Len(v), len))

\* the position where a stable descending sort by count puts entry x into the
\* already sorted prefix: after every entry whose count is >= x's count
RECURSIVE InsertDesc(_, _)
InsertDesc(sorted, x) ==
    IF sorted = <<>> THEN <<x>>
    ELSE IF Head(sorted)[2] >= x[2] THEN <<Head(sorted)>> \o InsertDesc(Tail(sorted), x)
    ELSE <<x>> \o sorted

\* v.sort_by(|a, b| b.1.cmp(&a.1)): stable sort, count descending
RECURSIVE sort_by_count_desc(_)
sort_by_count_desc(v) ==
    IF v = <<>> THEN <<>>
    ELSE InsertDesc(sort_by_count_desc(SubSeq(v, 1, Len(v) - 1)), v[Len(v)])

(***************************************************************************)
(* DnsProvider and the static provider table.                              *)
(***************************************************************************)
\* enum DnsProvider, in declaration order
DnsProvider ==
    <<"Cloudflare", "Google", "OpenDNS", "Quad9", "AdGuard", "CleanBrowsing", "Unknown">>

\* DnsProvider::as_str
as_str(p) ==
    CASE p = "Cloudflare" -> "cloudflare"
      [] p = "Google" -> "google"
      [] p = "OpenDNS" -> "opendns"
      [] p = "Quad9" -> "quad9"
      [] p = "AdGuard" -> "adguard"
      [] p = "CleanBrowsing" -> "cleanbrowsing"
      [] OTHER -> "unknown"

\* static DNS_PROVIDERS: provider -> its known addresses
DNS_PROVIDERS ==
    [p \in {"Cloudflare", "Google", "OpenDNS", "Quad9", "AdGuard", "CleanBrowsing"} |->
        CASE p = "Cloudflare" -> <<"1.1.1.1", "1.0.0.1">>
          [] p = "Google" -> <<"8.8.8.8", "8.8.4.4">>
          [] p = "OpenDNS" -> <<"208.67.222.222", "208.67.220.220">>
          [] p = "Quad9" -> <<"9.9.9.9", "149.112.112.112">>
          [] p = "AdGuard" -> <<"94.140.14.14", "94.140.15.15">>
          [] p = "CleanBrowsing" -> <<"185.228.168.9", "185.228.169.9">>]

\* the keys of DNS_PROVIDERS in a reference order; DNS_PROVIDERS.iter() may
\* visit them in any order
ProviderKeys == SubSeq(DnsProvider, 1, Len(DnsProvider) - 1)

\* every iteration order of DNS_PROVIDERS
ProviderIterOrders ==
    {o \in [1..Len(ProviderKeys) -> Range(ProviderKeys)] :
        \A i, j \in 1..Len(ProviderKeys) : i # j => o[i] # o[j]}

\* a buggy classifier: compares against the first address of a provider only
get_provider_for_ip_first_only(ip, order) ==
    LET hits == {i \in 1..Len(order) : DNS_PROVIDERS[order[i]][1] = ip}
    IN IF hits = {} THEN "Unknown"
       ELSE order[CHOOSE i \in hits : \A j \in hits : i <= j]

\* get_provider_for_ip: the first provider, in the table's iteration order,
\* whose address list contains ip; Unknown when there is none
get_provider_for_ip(ip, order) ==
    LET hits == {i \in 1..Len(order) : ip \in Range(DNS_PROVIDERS[order[i]])}
    IN IF hits = {} THEN "Unknown"
       ELSE order[CHOOSE i \in hits : \A j \in hits : i <= j]

(***************************************************************************)
(* cli::Args, its validation, and the capture filter.                      *)
(***************************************************************************)
\* str::to_lowercase on the strings the model passes to it
to_lowercase(s) ==
    CASE s = "Cloudflare" -> "cloudflare"
      [] s = "Google" -> "google"
      [] s = "QUAD9" -> "quad9"
      [] s = "JSON" -> "json"
      [] s = "Text" -> "text"
      [] s = "XML" -> "xml"
      [] OTHER -> s

\* DnsProvider::from_str
from_str(s) ==
    LET l == to_lowercase(s)
    IN CASE l = "cloudflare" -> "Cloudflare"
         [] l = "google" -> "Google"
         [] l = "opendns" -> "OpenDNS"
         [] l = "quad9" -> "Quad9"
         [] l = "adguard" -> "AdGuard"
         [] l = "cleanbrowsing" -> "CleanBrowsing"
         [] OTHER -> "Unknown"

\* struct Args: the fields the control flow reads.  An Option is a sequence
\* of length 0 (None) or 1 (Some).
Args(disable_tui, dns_only, dns_providers, list_devices, continue_on_error, format) ==
    [disable_tui |-> disable_tui, dns_only |-> dns_only, dns_providers |-> dns_providers,
     list_devices |-> list_devices, continue_on_error |-> continue_on_error,
     format |-> format]

Ok == [ok |-> TRUE, err |-> "", value |-> ""]
Err(kind, value) == [ok |-> FALSE, err |-> kind, value |-> value]

\* validate that passes over an empty provider name
validate_skips_empty_name(a) ==
    LET names == IF a.dns_providers = <<>> THEN <<>> ELSE a.dns_providers[1]
        bad == {i \in 1..Len(names) : names[i] # "" /\ from_str(names[i]) = "Unknown"}
    IN IF bad # {}
       THEN Err("Unknown DNS provider", names[CHOOSE i \in bad : \A j \in bad : i <= j])
       ELSE IF to_lowercase(a.format) \in {"text", "json", "csv"}
            THEN Ok
            ELSE Err("Invalid output format", a.format)

\* validate without the test of the output format
validate_ignores_format(a) ==
    LET names == IF a.dns_providers = <<>> THEN <<>> ELSE a.dns_providers[1]
        bad == {i \in 1..Len(names) : from_str(names[i]) = "Unknown"}
    IN IF bad # {}
       THEN Err("Unknown DNS provider", names[CHOOSE i \in bad : \A j \in bad : i <= j])
       ELSE Ok

\* validate without the test of the provider names
validate_ignores_providers(a) ==
    IF to_lowercase(a.format) \in {"text", "json", "csv"}
    THEN Ok
    ELSE Err("Invalid output format", a.format)

\* Args::validate: the first provider name that converts to Unknown is an
\* error; then the lower-cased format must be text, json or csv
validate(a) ==
    LET names == IF a.dns_providers = <<>> THEN <<>> ELSE a.dns_providers[1]
        bad == {i \in 1..Len(names) : from_str(names[i]) = "Unknown"}
    IN IF bad # {}
       THEN Err("Unknown DNS provider", names[CHOOSE i \in bad : \A j \in bad : i <= j])
       ELSE IF to_lowercase(a.format) \in {"text", "json", "csv"}
            THEN Ok
            ELSE Err("Invalid output format", a.format)

\* Args::get_dns_providers
get_dns_providers(a) ==
    IF a.dns_providers = <<>> THEN <<>>
    ELSE [i \in 1..Len(a.dns_providers[1]) |-> from_str(a.dns_providers[1][i])]

\* all_ips: the addresses of the requested providers, in request order; a
\* provider without an entry in DNS_PROVIDERS adds nothing
RECURSIVE all_ips(_)
all_ips(providers) ==
    IF providers = <<>> THEN <<>>
    ELSE (IF Head(providers) \in DOMAIN DNS_PROVIDERS
          THEN DNS_PROVIDERS[Head(providers)] ELSE <<>>) \o all_ips(Tail(providers))

\* ips.map(|ip| format!("host {}", ip)).join(" or "), as a sequence of words
RECURSIVE ip_conditions(_)
ip_conditions(ips) ==
    IF ips = <<>> THEN <<>>
    ELSE IF Len(ips) = 1 THEN <<"host", ips[1]>>
    ELSE <<"host", ips[1], "or">> \o ip_conditions(Tail(ips))

\* a filter that lists only the first address of each provider
RECURSIVE first_ips(_)
first_ips(providers) ==
    IF providers = <<>> THEN <<>>
    ELSE (IF Head(providers) \in DOMAIN DNS_PROVIDERS
          THEN <<DNS_PROVIDERS[Head(providers)][1]>> ELSE <<>>) \o first_ips(Tail(providers))

get_filter_for_providers_first_ip(providers) ==
    IF providers = <<>> THEN <<"udp", "port", "53">>
    ELSE <<"udp", "port", "53", "and", "(">> \o ip_conditions(first_ips(providers)) \o <<")">>

\* get_filter_for_providers: the filter string as its sequence of words
get_filter_for_providers(providers) ==
    IF providers = <<>> THEN <<"udp", "port", "53">>
    ELSE <<"udp", "port", "53", "and", "(">> \o ip_conditions(all_ips(providers)) \o <<")">>

\* a filter that matches the DNS ports whenever no provider is given
build_capture_filter_dns_by_default(a) ==
    LET providers == get_dns_providers(a)
    IN IF providers # <<>> THEN get_filter_for_providers(providers)
       ELSE <<"udp", "port", "53", "or", "tcp", "port", "53">>

\* build_capture_filter
build_capture_filter(a) ==
    LET providers == get_dns_providers(a)
    IN IF providers # <<>> THEN get_filter_for_providers(providers)
       ELSE IF a.dns_only THEN <<"udp", "port", "53", "or", "tcp", "port", "53">>
       ELSE <<>>

(***************************************************************************)
(* Captured frames and the decoder (net/mod.rs, dns/mod.rs).               *)
(***************************************************************************)
\* a captured frame: its length, the EtherType at bytes 12..13, the dotted
\* quads at bytes 26..29 and 30..33, and what dns_parser::Packet::parse makes
\* of the bytes from offset 42 on: <<>> for Err, <<message>> for Ok; ihl is
\* the header length in the low half of byte 14 (5 words when the IPv4
\* header has no options), which no code reads
Frame(len, ethertype, src, dst, dns) ==
    [len |-> len, ethertype |-> ethertype, ihl |-> 5, src |-> src, dst |-> dst,
     dns |-> dns]

\* a parsed DNS message: questions are (qname, qtype), answers are (name,
\* data) with the data already rendered to text
DnsMessage(questions, answers) == [questions |-> questions, answers |-> answers]

\* extract_ip_addresses without the test of the EtherType
extract_ip_addresses_any_ethertype(frame) ==
    IF frame.len < MinIpFrame THEN <<"unknown", "unknown">>
    ELSE <<frame.src, frame.dst>>

\* extract_ip_addresses
extract_ip_addresses(frame) ==
    IF frame.len < MinIpFrame THEN <<"unknown", "unknown">>
    ELSE IF frame.ethertype # ETHERTYPE_IPV4 THEN <<"unknown", "unknown">>
    ELSE <<frame.src, frame.dst>>

None == [tag |-> "None"]
Some(v) == [tag |-> "Some", value |-> v]
\* an index or slice out of range
Panic == [tag |-> "Panic"]

\* a parser that makes an empty query of bytes that are no DNS message
parse_payload_lenient(frame) ==
    IF frame.len < dns_data_start THEN Panic
    ELSE IF frame.len = dns_data_start THEN None
    ELSE IF frame.dns = <<>> THEN Some(DnsMessage(<< <<"", "A">> >>, <<>>))
    ELSE Some(frame.dns[1])

\* Packet::parse(&packet.data[dns_data_start..]): the slice panics when the
\* frame is shorter than its start, and an empty slice is no DNS message
parse_payload(frame) ==
    IF frame.len < dns_data_start THEN Panic
    ELSE IF frame.len = dns_data_start \/ frame.dns = <<>> THEN None
    ELSE Some(frame.dns[1])

\* a decoder that takes the last question of the message
decode_last_question(frame, order) ==
    LET addresses == extract_ip_addresses(frame)
        provider == get_provider_for_ip(addresses[1], order)
        payload == parse_payload(frame)
    IN IF payload.tag # "Some" THEN payload
       ELSE LET dns == payload.value
                query == IF Len(dns.questions) > 0
                         THEN <<[name |-> dns.questions[Len(dns.questions)][1],
                                 query_type |-> dns.questions[Len(dns.questions)][2]]>>
                         ELSE <<>>
            IN Some([query |-> query, answers |-> dns.answers, provider |-> provider,
                     source |-> addresses[1], destination |-> addresses[2]])

\* parse_packet past its length test: the addresses, the provider of the
\* source address, the payload, and of the payload the first question only
decode(frame, order) ==
    LET addresses == extract_ip_addresses(frame)
        provider == get_provider_for_ip(addresses[1], order)
        payload == parse_payload(frame)
    IN IF payload.tag # "Some" THEN payload
       ELSE LET dns == payload.value
                query == IF Len(dns.questions) > 0
                         THEN <<[name |-> dns.questions[1][1],
                                 query_type |-> dns.questions[1][2]]>>
                         ELSE <<>>
            IN Some([query |-> query, answers |-> dns.answers, provider |-> provider,
                     source |-> addresses[1], destination |-> addresses[2]])

\* parse_packet with the length test of extract_ip_addresses (< 34) in place
\* of its own (<= 42)
parse_packet_checks_ip_header_only(frame, order) ==
    IF frame.len < MinIpFrame THEN None ELSE decode(frame, order)

\* parse_packet: None for a frame of at most 42 bytes; otherwise the decoding
parse_packet(frame, order) ==
    IF frame.len <= dns_data_start THEN None ELSE decode(frame, order)

(***************************************************************************)
(* TxEvent (shared.rs) and the aggregator DnsTrafficData (tui/mod.rs).     *)
(***************************************************************************)
\* TxEvent::DnsQuery
TxEvent(domain, query_type, provider, source, destination, timestamp) ==
    [domain |-> domain, query_type |-> query_type, provider |-> provider,
     source |-> source, destination |-> destination, timestamp |-> timestamp]

\* format!("{}->{}", source, destination)
connection_key(source, destination) == <<source, "->", destination>>

EmptyMap == [k \in {} |-> 0]

\* *map.entry(key).or_insert(1) += 1: a new entry starts at 2
entry_increment_from_one(map, key) ==
    [k \in DOMAIN map \cup {key} |->
        IF k = key THEN (IF key \in DOMAIN map THEN map[key] ELSE 1) + 1
        ELSE map[k]]

\* *map.entry(key).or_insert(0) += 1, with a slip: the entry is reset to 1
entry_increment_resets(map, key) ==
    [k \in DOMAIN map \cup {key} |-> IF k = key THEN 1 ELSE map[k]]

\* *map.entry(key).or_insert(0) += 1
entry_increment(map, key) ==
    [k \in DOMAIN map \cup {key} |->
        IF k = key THEN (IF key \in DOMAIN map THEN map[key] ELSE 0) + 1
        ELSE map[k]]

\* map.iter().map(|(k, c)| (k.clone(), *c)).collect::<Vec<_>>(): the entries of
\* the map in the iteration order `order` (a sequence that lists every key)
collect(map, order) ==
    LET keys == SelectSeq(order, LAMBDA k : k \in DOMAIN map)
    IN [i \in 1..Len(keys) |-> <<keys[i], map[keys[i]]>>]


\* the (key, count) list update_top_lists builds from one counter map
top_list(map, order, limit) == truncate(sort_by_count_desc(collect(map, order)), limit)

\* prune_old_data with the retain() left out
prune_nothing(history, current_time) == history

\* prune_old_data: every provider's series keeps the points with
\* time >= current_time - window_size
prune_old_data(history, current_time) ==
    LET cutoff == current_time - WindowSeconds
    IN [p \in DOMAIN history |-> SelectSeq(history[p], LAMBDA pt : pt[1] >= cutoff)]

\* the recent-query store evicting one entry too early (>= in place of >)
push_recent_evicts_early(queue, event) ==
    LET pushed == <<event>> \o queue
    IN IF Len(pushed) >= RecentLimit THEN SubSeq(pushed, 1, Len(pushed) - 1) ELSE pushed

\* recent_queries.push_front(event); if len() > 100 { pop_back() }
push_recent(queue, event) ==
    LET pushed == <<event>> \o queue
    IN IF Len(pushed) > RecentLimit THEN SubSeq(pushed, 1, Len(pushed) - 1) ELSE pushed

\* a series that takes the new point at its front
push_point_front(history, provider, point) ==
    [p \in DOMAIN history \cup {provider} |->
        IF p = provider
        THEN <<point>> \o (IF provider \in DOMAIN history THEN history[provider] ELSE <<>>)
        ELSE history[p]]

\* provider_history.entry(provider).or_insert_with(Vec::new).push(point)
push_point(history, provider, point) ==
    [p \in DOMAIN history \cup {provider} |->
        IF p = provider
        THEN (IF provider \in DOMAIN history THEN history[provider] ELSE <<>>) \o <<point>>
        ELSE history[p]]

\* DnsTrafficData::update(event).  `elapsed` and `current_time` are the two
\* reads of start_time.elapsed() (in update and in prune_old_data); dorder and
\* porder are the iteration orders of domain_counts and provider_counts.
update(event, elapsed, current_time, dorder, porder) ==
    LET dc == entry_increment(domain_counts, event.domain)
        pc == entry_increment(provider_counts, event.provider)
        qpp == entry_increment(queries_per_provider, event.provider)
        count == IF event.provider \in DOMAIN qpp THEN qpp[event.provider] ELSE 0
    IN /\ domain_counts' = dc
       /\ provider_counts' = pc
       /\ queries_per_provider' = qpp
       /\ connections' =
              entry_increment(connections, connection_key(event.source, event.destination))
       /\ recent_queries' = push_recent(recent_queries, event)
       /\ top_domains' = top_list(dc, dorder, TopDomainsLimit)
       /\ top_providers' = top_list(pc, porder, TopProvidersLimit)
       /\ provider_history' =
              prune_old_data(push_point(provider_history, event.provider, <<elapsed, count>>),
                             current_time)

\* DnsTrafficData::get_top_connections(limit), iterating connections in `order`
get_top_connections(limit, order) ==
    truncate(sort_by_count_desc(collect(connections, order)), limit)

\* create_chart_datasets: the table of providers and colours it walks
provider_colors ==
    << <<"Cloudflare", "Cyan">>, <<"Google", "Red">>, <<"OpenDNS", "Green">>,
       <<"Quad9", "Magenta">>, <<"AdGuard", "Yellow">>, <<"Unknown", "Gray">> >>

\* create_chart_datasets(data): one dataset for each provider of
\* provider_colors whose series exists and is not empty, in table order
create_chart_datasets(history) ==
    LET shown == SelectSeq(provider_colors,
                           LAMBDA pc : pc[1] \in DOMAIN history /\ history[pc[1]] # <<>>)
    IN [i \in 1..Len(shown) |->
           [name |-> as_str(shown[i][1]), color |-> shown[i][2],
            data |-> history[shown[i][1]]]]

\* DnsTrafficData::new(window_size)
DnsTrafficData_new ==
    /\ provider_history = EmptyMap
    /\ top_domains = <<>>
    /\ top_providers = <<>>
    /\ queries_per_provider = EmptyMap
    /\ domain_counts = EmptyMap
    /\ provider_counts = EmptyMap
    /\ recent_queries = <<>>
    /\ connections = EmptyMap

(***************************************************************************)
(* The aggregator under a stream of events.                                *)
(***************************************************************************)
DomainName(i) ==
    IF i = 1 THEN "example.com"
    ELSE IF i = 2 THEN "foo.com"
    ELSE "d" \o ToString(i) \o ".test"

\* the domain names of the model, in a reference order
DomainOrder == [i \in 1..NumDomains |-> DomainName(i)]

\* the source addresses of the model: one address of each provider and one
\* address of no provider
SourceIps ==
    <<"1.1.1.1", "8.8.8.8", "208.67.222.222", "9.9.9.9", "94.140.14.14",
      "185.228.168.9", "192.168.1.10">>

LocalIp == "192.168.1.2"

\* the connection keys of the model, in a reference order
ConnectionOrder == [i \in 1..Len(SourceIps) |-> connection_key(SourceIps[i], LocalIp)]

\* the iteration orders of a HashMap the model explores: the reference order
\* of its keys and the reverse
IterOrders(ref) == {ref, Reverse(ref)}

\* the observation the decoder makes of a query: the provider tag is the
\* classification of the source address (dns/mod.rs:38)
Observation(domain, source, destination, timestamp) ==
    TxEvent(domain, "A", get_provider_for_ip(source, ProviderKeys), source, destination,
            timestamp)

FreeWorkload == [kind |-> "free", nd |-> 0, ns |-> 0]

\* a cyclic workload: event n has the (n mod nd)-th domain and the (n mod ns)-th source
CyclicWorkloads ==
    {[kind |-> "cyclic", nd |-> d, ns |-> s] : d \in 1..NumDomains, s \in 1..Len(SourceIps)}

\* the aggregator before any update, with no workload
AggIdle ==
    /\ DnsTrafficData_new
    /\ now = 0
    /\ workload = FreeWorkload
    /\ folded = <<>>
    /\ last_elapsed = 0

ClassifyIdle ==
    /\ classify_call = [ip |-> "", order |-> ProviderKeys]
    /\ classify_ret = <<>>

DefaultArgs == Args(FALSE, FALSE, <<>>, FALSE, FALSE, "text")

FilterIdle ==
    /\ args = DefaultArgs
    /\ capture_filter = <<>>

\* the process before main runs
MainIdle ==
    /\ main_pc = "validate"
    /\ exited = FALSE
    /\ exit_code = 0
    /\ exit_cause = "none"
    /\ reported = {}
    /\ effects = {}
    /\ terminal = "cooked"

CaptureIdle ==
    /\ cap_pc = "idle"
    /\ packet_count = 0
    /\ received = <<>>
    /\ stdout = <<>>
    /\ chan = <<>>
    /\ rx_alive = FALSE

\* no drain has started: nothing folded before it, nothing queued
NoDrain == [base |-> 0, queued |-> <<>>]

\* the terminal input and the histories of the presentation loop, at start
LoopIdle ==
    /\ key_pending = FALSE
    /\ emitted = <<>>
    /\ drain_mark = NoDrain

InitAgg ==
    /\ DnsTrafficData_new
    /\ now = 0
    /\ workload \in {FreeWorkload} \cup CyclicWorkloads
    /\ folded = <<>>
    /\ last_elapsed = 0
    /\ ClassifyIdle
    /\ FilterIdle
    /\ MainIdle
    /\ CaptureIdle
    /\ LoopIdle

\* one call of update(event): the clock advances by dt before the call and by
\* gap between the two reads of the clock inside it
fold(event, dt, gap) ==
    /\ \E dorder \in IterOrders(DomainOrder), porder \in IterOrders(DnsProvider) :
           update(event, now + dt, now + dt + gap, dorder, porder)
    /\ now' = now + dt + gap
    /\ last_elapsed' = now + dt
    /\ folded' = Append(folded, event)

Fold(event, dt, gap) ==
    /\ fold(event, dt, gap)
    /\ UNCHANGED <<loopVars, workload, classifyVars, filterVars, mainVars, capVars>>

FoldFree ==
    /\ workload.kind = "free"
    /\ Len(folded) < MaxUpdates
    /\ \E i \in 1..2, dt \in {WindowSeconds \div 2, WindowSeconds + 1}, gap \in {0, 1} :
           Fold(Observation(DomainName(i), SourceIps[i], LocalIp, now + dt), dt, gap)

FoldCyclic ==
    /\ workload.kind = "cyclic"
    /\ Len(folded) < MaxStream
    /\ LET n == Len(folded)
       IN Fold(Observation(DomainName((n % workload.nd) + 1),
                           SourceIps[(n % workload.ns) + 1], LocalIp, now + 1), 1, 0)

NextAgg == FoldFree \/ FoldCyclic

SpecAgg == InitAgg /\ [][NextAgg]_vars


(***************************************************************************)
(* The program: main (main.rs), the capture loop (capture/mod.rs), the     *)
(* sinks (capture/mod.rs, capture/output_mode/tui_output.rs) and the       *)
(* presentation loop run_tui (tui/mod.rs).                                 *)
(***************************************************************************)
\* a line on stdout
Line(kind, name, text, n) == [kind |-> kind, name |-> name, text |-> text, n |-> n]

\* capture::handle_dns_packet: the lines the immediate sink prints
handle_dns_packet(dns_packet) ==
    (IF dns_packet.query # <<>>
     THEN <<Line("DNS Query", dns_packet.query[1].name, dns_packet.query[1].query_type, 0)>>
     ELSE <<>>)
    \o (IF dns_packet.answers # <<>>
        THEN <<Line("DNS Response", "", "", Len(dns_packet.answers))>>
             \o [i \in 1..Len(dns_packet.answers) |->
                    Line("answer", dns_packet.answers[i][1], dns_packet.answers[i][2], i)]
        ELSE <<>>)

\* a sink that sends an event for the first answer of a packet without a query
channel_handle_dns_packet_or_answer(dns_packet, timestamp) ==
    IF dns_packet.query # <<>>
    THEN <<TxEvent(dns_packet.query[1].name, dns_packet.query[1].query_type,
                   dns_packet.provider, dns_packet.source, dns_packet.destination,
                   timestamp)>>
    ELSE IF dns_packet.answers # <<>>
    THEN <<TxEvent(dns_packet.answers[1][1], "A", dns_packet.provider,
                   dns_packet.source, dns_packet.destination, timestamp)>>
    ELSE <<>>

\* ChannelOutput::handle_dns_packet: the events sent for one decoded packet
channel_handle_dns_packet(dns_packet, timestamp) ==
    IF dns_packet.query # <<>>
    THEN <<TxEvent(dns_packet.query[1].name, dns_packet.query[1].query_type,
                   dns_packet.provider, dns_packet.source, dns_packet.destination,
                   timestamp)>>
    ELSE <<>>

\* a channel of capacity one whose sender gives up on a full queue
send_unless_full(queue, events) == IF rx_alive /\ queue = <<>> THEN queue \o events ELSE queue

\* a channel that hands out the newest event first
send_to_front(queue, events) == IF rx_alive THEN events \o queue ELSE queue

\* Sender::send(..).ok(): queued while the Receiver lives, dropped otherwise
send(queue, events) == IF rx_alive THEN queue \o events ELSE queue

\* history of send(): each event with the result of its send (Ok while the
\* Receiver lives, Err afterwards, which .ok() discards)
sent(events) == [i \in 1..Len(events) |-> [event |-> events[i], delivered |-> rx_alive]]

\* std::process::exit(code)
process_exit(code, cause) ==
    /\ exited' = TRUE
    /\ exit_code' = code
    /\ exit_cause' = cause

\* a main that ends every run with status 0
exit_status_always_zero(result) == 0

\* the exit status of fn main() -> Result<()>: 0 for Ok, 1 for Err
exit_status(result) == IF result.ok THEN 0 ELSE 1

\* main returns `result`
main_return(result, cause) == process_exit(exit_status(result), cause)

\* main.rs:18-21: validate the arguments, exit(1) on error
MainValidate ==
    /\ ~exited
    /\ main_pc = "validate"
    /\ LET r == validate(args)
       IN IF r.ok
          THEN /\ main_pc' = IF args.list_devices THEN "list_devices" ELSE "channel"
               /\ UNCHANGED <<exited, exit_code, exit_cause, reported>>
          ELSE /\ main_pc' = "done"
               /\ reported' = reported \cup {r.err}
               /\ process_exit(1, "config")
    /\ UNCHANGED <<loopVars, effects, terminal, aggVars, envVars, classifyVars,
                   filterVars, capVars>>

\* main.rs:23-25 and list_devices(): Device::list() succeeds or fails
MainListDevices ==
    /\ ~exited
    /\ main_pc = "list_devices"
    /\ effects' = effects \cup {"list_devices"}
    /\ main_pc' = "done"
    /\ \E listed \in BOOLEAN :
           IF listed
           THEN main_return(Ok, "listed") /\ UNCHANGED reported
           ELSE /\ main_return(Err("Failed to list network devices", ""), "list_failed")
                /\ reported' = reported \cup {"Failed to list network devices"}
    /\ UNCHANGED <<loopVars, terminal, aggVars, envVars, classifyVars, filterVars,
                   capVars>>

\* main.rs:28: mpsc::channel()
MainChannel ==
    /\ ~exited
    /\ main_pc = "channel"
    /\ effects' = effects \cup {"channel"}
    /\ chan' = <<>>
    /\ rx_alive' = TRUE
    /\ main_pc' = IF ~args.disable_tui THEN "spawn" ELSE "cli"
    /\ UNCHANGED <<loopVars, exited, exit_code, exit_cause, reported, terminal, aggVars,
                   envVars, classifyVars, filterVars, cap_pc, packet_count, received,
                   stdout>>

\* main.rs:35-42: thread::spawn of the capture thread
MainSpawn ==
    /\ ~exited
    /\ main_pc = "spawn"
    /\ effects' = effects \cup {"thread"}
    /\ cap_pc' = "setup"
    /\ main_pc' = "tui_setup"
    /\ UNCHANGED <<loopVars, exited, exit_code, exit_cause, reported, terminal, aggVars,
                   envVars, classifyVars, filterVars, packet_count, received, stdout,
                   chan, rx_alive>>

\* main.rs:46-74: the banner, then capture::start_capture(&args) on the main thread
MainStartCapture ==
    /\ ~exited
    /\ main_pc = "cli"
    /\ cap_pc' = "setup"
    /\ main_pc' = "in_capture"
    /\ UNCHANGED <<loopVars, exited, exit_code, exit_cause, reported, effects, terminal,
                   aggVars, envVars, classifyVars, filterVars, packet_count, received,
                   stdout, chan, rx_alive>>

\* start_capture, lines 13-57: list the devices, pick one, open it, build and
\* install the filter; any of these may fail and the error is returned
CaptureSetup ==
    /\ ~exited
    /\ cap_pc = "setup"
    /\ effects' = effects \cup {"capture"}
    /\ \E opened \in BOOLEAN :
           IF opened
           THEN /\ capture_filter' = <<build_capture_filter(args)>>
                /\ cap_pc' = "loop"
           ELSE /\ cap_pc' = "returned_err"
                /\ UNCHANGED capture_filter
    /\ UNCHANGED <<loopVars, args, main_pc, exited, exit_code, exit_cause, reported,
                   terminal, aggVars, envVars, classifyVars, packet_count, received,
                   stdout, chan, rx_alive>>

\* start_capture, lines 66-81: next_packet() returned a frame; it is decoded
\* when a provider list or dns_only is set, and a decoded packet is printed
CaptureFrameCli(frame) ==
    /\ ~exited
    /\ args.disable_tui
    /\ cap_pc = "loop"
    /\ packet_count < MaxFrames
    /\ packet_count' = packet_count + 1
    /\ received' = Append(received, frame)
    /\ \E order \in IterOrders(ProviderKeys) :
           LET decoded == IF args.dns_providers # <<>> \/ args.dns_only
                          THEN parse_packet(frame, order)
                          ELSE None
           IN /\ stdout' = IF decoded.tag = "Some"
                           THEN stdout \o handle_dns_packet(decoded.value)
                           ELSE stdout
              /\ IF decoded.tag = "Panic"
                 THEN /\ cap_pc' = "panicked"
                      /\ process_exit(101, "panic")
                 ELSE UNCHANGED <<cap_pc, exited, exit_code, exit_cause>>
    /\ UNCHANGED <<loopVars, main_pc, reported, effects, terminal, aggVars, envVars,
                   classifyVars, filterVars, chan, rx_alive>>

\* start_capture_with_channel: next_packet() returned a frame; it is decoded
\* and a decoded packet is handed to the channeled sink, which stamps it with
\* Instant::now(); each stamp is later than the one before
CaptureFrameChannel(frame) ==
    /\ ~exited
    /\ ~args.disable_tui
    /\ cap_pc = "loop"
    /\ packet_count < MaxFrames
    /\ packet_count' = packet_count + 1
    /\ received' = Append(received, frame)
    /\ \E order \in IterOrders(ProviderKeys) :
           LET decoded == parse_packet(frame, order)
               events == IF decoded.tag = "Some"
                         THEN channel_handle_dns_packet(decoded.value, now)
                         ELSE <<>>
           IN /\ chan' = send(chan, events)
              /\ emitted' = emitted \o sent(events)
              /\ now' = IF events # <<>> /\ now < MaxClock THEN now + 1 ELSE now
              /\ cap_pc' = IF decoded.tag = "Panic" THEN "panicked" ELSE cap_pc
    /\ UNCHANGED <<key_pending, drain_mark, mainVars, aggVars, workload, folded,
                   last_elapsed, classifyVars, filterVars, stdout, rx_alive>>

\* a loop whose timeout falls into the arm of the other errors
CaptureTimeout_as_error ==
    /\ ~exited
    /\ cap_pc = "loop"
    /\ reported' = reported \cup {"Error capturing packet"}
    /\ cap_pc' = IF args.continue_on_error THEN "sleep" ELSE "returned_err"
    /\ UNCHANGED <<loopVars, main_pc, exited, exit_code, exit_cause, effects, terminal,
                   aggVars, envVars, classifyVars, filterVars, packet_count, received,
                   stdout, chan, rx_alive>>

\* start_capture, lines 82-85: Err(TimeoutExpired), then sleep(100 ms)
CaptureTimeout ==
    /\ ~exited
    /\ cap_pc = "loop"
    /\ cap_pc' = "sleep"
    /\ UNCHANGED <<loopVars, mainVars, aggVars, envVars, classifyVars, filterVars,
                   packet_count, received, stdout, chan, rx_alive>>

\* the sleep ends and the loop polls again
CaptureWake ==
    /\ ~exited
    /\ cap_pc = "sleep"
    /\ cap_pc' = "loop"
    /\ UNCHANGED <<loopVars, mainVars, aggVars, envVars, classifyVars, filterVars,
                   packet_count, received, stdout, chan, rx_alive>>

\* a loop that returns every capture error, whatever continue_on_error says
CaptureError_always_fatal ==
    /\ ~exited
    /\ cap_pc = "loop"
    /\ reported' = reported \cup {"Error capturing packet"}
    /\ cap_pc' = "returned_err"
    /\ UNCHANGED <<loopVars, main_pc, exited, exit_code, exit_cause, effects, terminal,
                   aggVars, envVars, classifyVars, filterVars, packet_count, received,
                   stdout, chan, rx_alive>>

\* start_capture, lines 86-91: any other capture error is printed, and
\* returned unless continue_on_error is set
CaptureError ==
    /\ ~exited
    /\ cap_pc = "loop"
    /\ reported' = reported \cup {"Error capturing packet"}
    /\ cap_pc' = IF args.continue_on_error THEN "loop" ELSE "returned_err"
    /\ UNCHANGED <<loopVars, main_pc, exited, exit_code, exit_cause, effects, terminal,
                   aggVars, envVars, classifyVars, filterVars, packet_count, received,
                   stdout, chan, rx_alive>>

\* main.rs:71-74: start_capture returned Err(e); it is printed and returned
MainCaptureFailed ==
    /\ ~exited
    /\ main_pc = "in_capture"
    /\ cap_pc = "returned_err"
    /\ reported' = reported \cup {"Error during capture"}
    /\ main_pc' = "done"
    /\ main_return(Err("Error during capture", ""), "capture_error")
    /\ UNCHANGED <<loopVars, effects, terminal, aggVars, envVars, classifyVars,
                   filterVars, capVars>>

\* main.rs:37-41: the capture thread got Err(e); it is printed, then exit(1)
ThreadCaptureFailed ==
    /\ ~exited
    /\ ~args.disable_tui
    /\ cap_pc = "returned_err"
    /\ reported' = reported \cup {"Error during capture"}
    /\ process_exit(1, "capture_error")
    /\ UNCHANGED <<loopVars, main_pc, effects, terminal, aggVars, envVars, classifyVars,
                   filterVars, capVars>>

\* run_tui returns Err(e) to main, which returns it (the `?` of main.rs:44)
tui_failed ==
    /\ main_pc' = "return_err"
    /\ rx_alive' = FALSE
    /\ reported' = reported \cup {"io error"}

\* run_tui, lines 190-200: raw mode, alternate screen, Terminal::new, then
\* DnsTrafficData::new(60.0); the first call may fail before the terminal is
\* changed, the later ones after
TuiSetup ==
    /\ ~exited
    /\ main_pc = "tui_setup"
    /\ \E outcome \in {"ok", "raw_mode_failed", "screen_failed"} :
           /\ terminal' = IF outcome = "raw_mode_failed" THEN terminal ELSE "raw"
           /\ effects' = effects \cup {"terminal"}
           /\ IF outcome = "ok"
              THEN /\ main_pc' = "tui_draw"
                   /\ UNCHANGED <<rx_alive, reported>>
              ELSE tui_failed
    /\ UNCHANGED <<loopVars, exited, exit_code, exit_cause, aggVars, envVars,
                   classifyVars, filterVars, cap_pc, packet_count, received, stdout,
                   chan>>

\* run_tui, lines 204-382: terminal.draw(..)?
TuiDraw ==
    /\ ~exited
    /\ main_pc = "tui_draw"
    /\ \E drawn \in BOOLEAN :
           IF drawn
           THEN /\ main_pc' = "tui_poll"
                /\ drain_mark' = NoDrain
                /\ UNCHANGED <<rx_alive, reported>>
           ELSE tui_failed /\ UNCHANGED drain_mark
    /\ UNCHANGED <<key_pending, emitted, exited, exit_code, exit_cause, effects, terminal,
                   aggVars, envVars, classifyVars, filterVars, cap_pc, packet_count,
                   received, stdout, chan>>

\* the user presses q while the presentation loop runs; the key waits in the
\* terminal's input queue until event::read() returns it
PressQuit ==
    /\ ~exited
    /\ main_pc \in {"tui_draw", "tui_poll", "tui_drain"}
    /\ ~key_pending
    /\ key_pending' = TRUE
    /\ UNCHANGED <<emitted, drain_mark, aggVars, envVars, classifyVars, filterVars, mainVars,
                   capVars>>

\* what poll(timeout)? and read()? can give: the pending q, or else nothing
\* within the timeout or some other event; either call may fail
poll_outcomes == IF key_pending THEN {"error", "q"} ELSE {"error", "nothing", "other"}

\* run_tui, lines 385-395: poll(timeout)? and read()?; the key q breaks out
\* of the loop, anything else goes on to the drain
TuiPoll ==
    /\ ~exited
    /\ main_pc = "tui_poll"
    /\ \E outcome \in poll_outcomes :
           IF outcome = "error"
           THEN tui_failed /\ UNCHANGED <<key_pending, drain_mark>>
           ELSE /\ main_pc' = IF outcome = "q" THEN "tui_restore" ELSE "tui_drain"
                /\ key_pending' = IF outcome = "q" THEN FALSE ELSE key_pending
                /\ drain_mark' = IF outcome = "q"
                                 THEN drain_mark
                                 ELSE [base |-> Len(folded), queued |-> chan]
                /\ UNCHANGED <<rx_alive, reported>>
    /\ UNCHANGED <<emitted, exited, exit_code, exit_cause, effects, terminal, aggVars,
                   envVars, classifyVars, filterVars, cap_pc, packet_count, received,
                   stdout, chan>>

\* a drain that reads the head of the queue without taking it
TuiDrainOne_peeks ==
    /\ ~exited
    /\ main_pc = "tui_drain"
    /\ chan # <<>>
    /\ fold(Head(chan), 0, 0)
    /\ UNCHANGED <<loopVars, workload, mainVars, classifyVars, filterVars, capVars>>

\* run_tui, lines 398-400: rx.try_recv() returned an event; update(event)
TuiDrainOne ==
    /\ ~exited
    /\ main_pc = "tui_drain"
    /\ chan # <<>>
    /\ chan' = Tail(chan)
    /\ fold(Head(chan), 0, 0)
    /\ UNCHANGED <<loopVars, workload, mainVars, classifyVars, filterVars, cap_pc,
                   packet_count, received, stdout, rx_alive>>

\* a drain that stops after any event, with the queue not yet empty
TuiDrainEnd_early ==
    /\ ~exited
    /\ main_pc = "tui_drain"
    /\ main_pc' = "tui_draw"
    /\ UNCHANGED <<loopVars, exited, exit_code, exit_cause, reported, effects, terminal,
                   aggVars, envVars, classifyVars, filterVars, capVars>>

\* run_tui, lines 398-404: rx.try_recv() returned Err (the queue is empty);
\* the loop resets last_tick when a tick has passed and draws again
TuiDrainEnd ==
    /\ ~exited
    /\ main_pc = "tui_drain"
    /\ chan = <<>>
    /\ main_pc' = "tui_draw"
    /\ UNCHANGED <<loopVars, exited, exit_code, exit_cause, reported, effects, terminal,
                   aggVars, envVars, classifyVars, filterVars, capVars>>

\* run_tui, lines 408-416: disable_raw_mode()?, LeaveAlternateScreen?,
\* show_cursor()?; Ok(()) when all succeed
TuiRestore ==
    /\ ~exited
    /\ main_pc = "tui_restore"
    /\ \E outcome \in {"ok", "raw_mode_failed", "screen_failed"} :
           /\ terminal' = IF outcome = "raw_mode_failed" THEN terminal ELSE "cooked"
           /\ IF outcome = "ok"
              THEN /\ main_pc' = "return_ok"
                   /\ rx_alive' = FALSE
                   /\ UNCHANGED reported
              ELSE tui_failed
    /\ UNCHANGED <<loopVars, exited, exit_code, exit_cause, effects, aggVars, envVars,
                   classifyVars, filterVars, cap_pc, packet_count, received, stdout,
                   chan>>

\* main.rs:44: run_tui(rx)? returned Err; main returns it
MainTuiFailed ==
    /\ ~exited
    /\ main_pc = "return_err"
    /\ main_pc' = "done"
    /\ main_return(Err("io error", ""), "tui_error")
    /\ UNCHANGED <<loopVars, reported, effects, terminal, aggVars, envVars, classifyVars,
                   filterVars, capVars>>

\* main.rs:80: Ok(())
MainReturnOk ==
    /\ ~exited
    /\ main_pc = "return_ok"
    /\ main_pc' = "done"
    /\ main_return(Ok, "quit")
    /\ UNCHANGED <<loopVars, reported, effects, terminal, aggVars, envVars, classifyVars,
                   filterVars, capVars>>

\* the capture thread is in its loop, about to ask for the next frame
CaptureLoopRuns == ~exited /\ ~args.disable_tui /\ cap_pc = "loop"

\* frames the capture source delivers
ShortFrame ==
    Frame(41, ETHERTYPE_IPV4, "192.168.1.10", "1.1.1.1", <<>>)
HeaderOnlyFrame ==
    Frame(dns_data_start, ETHERTYPE_IPV4, "192.168.1.10", "1.1.1.1", <<>>)
QueryFrame ==
    Frame(70, ETHERTYPE_IPV4, "192.168.1.10", "1.1.1.1",
          <<DnsMessage(<< <<"example.com", "A">> >>, <<>>)>>)
ResponseFrame ==
    Frame(86, ETHERTYPE_IPV4, "8.8.8.8", "192.168.1.10",
          <<DnsMessage(<< <<"foo.com", "A">> >>, << <<"foo.com", "93.184.216.34">> >>)>>)
MalformedFrame ==
    Frame(70, ETHERTYPE_IPV4, "192.168.1.10", "1.1.1.1", <<>>)

Frames == {ShortFrame, HeaderOnlyFrame, QueryFrame, ResponseFrame, MalformedFrame}

\* frames that are not plain IPv4: an IPv6 frame (EtherType 0x86DD), whose 40
\* byte header leaves nothing decodable at offset 42; a frame with an 802.1Q
\* tag (0x8100 at bytes 12..13) and an IPv4 frame with one word of options,
\* both of them with bytes at offset 42 that happen to decode
Ipv6Frame ==
    Frame(90, 34525, "0.0.0.0", "0.0.0.1", <<>>)
VlanFrame ==
    Frame(74, 33024, "0.64.17.1", "192.168.1.10",
          <<DnsMessage(<< <<"d3.test", "A">> >>, <<>>)>>)
OptionsFrame ==
    [Frame(74, ETHERTYPE_IPV4, "192.168.1.10", "8.8.8.8",
           <<DnsMessage(<< <<"d4.test", "A">> >>, <<>>)>>) EXCEPT !.ihl = 6]
\* a message with two questions, and one with answers and no question
TwoQuestionFrame ==
    Frame(90, ETHERTYPE_IPV4, "192.168.1.10", "9.9.9.9",
          <<DnsMessage(<< <<"d5.test", "A">>, <<"d6.test", "AAAA">> >>, <<>>)>>)
AnswerOnlyFrame ==
    Frame(86, ETHERTYPE_IPV4, "1.1.1.1", "192.168.1.10",
          <<DnsMessage(<<>>, << <<"foo.com", "93.184.216.34">> >>)>>)

\* the frames the decoder is tried on
DecodeFrames ==
    {ShortFrame, MalformedFrame, Ipv6Frame, VlanFrame, OptionsFrame, TwoQuestionFrame,
     AnswerOnlyFrame, QueryFrame}

\* the configurations of the model
\* (the upper-case spelling of a format is tried on the listing path only;
\* the interactive capture decodes every frame, whatever dns_only and the
\* provider list say, so there the two are tried together or not at all)
ArgsInputs ==
    {a \in {Args(t, d, l, ld, c, f) :
                t \in BOOLEAN, d \in BOOLEAN,
                l \in {<<>>, << <<"cloudflare">> >>, << <<"Google", "bogus">> >>},
                ld \in BOOLEAN, c \in BOOLEAN, f \in {"text", "JSON", "xml"}} :
        /\ a.format = "JSON" => a.list_devices
        /\ ~a.disable_tui => (a.dns_only <=> a.dns_providers # <<>>)}

Init ==
    /\ AggIdle
    /\ ClassifyIdle
    /\ MainIdle
    /\ CaptureIdle
    /\ LoopIdle
    /\ args \in ArgsInputs
    /\ capture_filter = <<>>

Next ==
    \/ MainValidate
    \/ MainListDevices
    \/ MainChannel
    \/ MainSpawn
    \/ MainStartCapture
    \/ CaptureSetup
    \/ \E frame \in Frames : CaptureFrameCli(frame)
    \/ \E frame \in Frames : CaptureFrameChannel(frame)
    \/ CaptureTimeout
    \/ CaptureWake
    \/ CaptureError
    \/ MainCaptureFailed
    \/ ThreadCaptureFailed
    \/ TuiSetup
    \/ TuiDraw
    \/ PressQuit
    \/ TuiPoll
    \/ TuiDrainOne
    \/ TuiDrainEnd
    \/ TuiRestore
    \/ MainTuiFailed
    \/ MainReturnOk

Spec == Init /\ [][Next]_vars

(***************************************************************************)
(* The two threads under sustained traffic.  The capture source delivers   *)
(* frames without end, so the histories and counters of a run (received,   *)
(* packet_count, emitted, folded) and the content of the aggregator, which *)
(* grow with every frame and decide no branch of either loop, are left     *)
(* as they are; the queue, the position of each thread, the terminal and   *)
(* its input are as in Spec.                                               *)
(***************************************************************************)
\* events the unbounded channel holds at most in this specification
MaxQueue == 2

\* the capture thread takes a frame, decodes it and hands the observation to
\* the channeled sink
CaptureFrameSteady(frame) ==
    /\ CaptureLoopRuns
    /\ \E order \in IterOrders(ProviderKeys) :
           LET decoded == parse_packet(frame, order)
               events == IF decoded.tag = "Some"
                         THEN channel_handle_dns_packet(decoded.value, now)
                         ELSE <<>>
           IN /\ Len(chan) + Len(events) <= MaxQueue
              /\ chan' = send(chan, events)
              /\ cap_pc' = IF decoded.tag = "Panic" THEN "panicked" ELSE cap_pc
    /\ UNCHANGED <<loopVars, mainVars, aggVars, envVars, classifyVars, filterVars,
                   packet_count, received, stdout, rx_alive>>

\* run_tui, lines 398-400: rx.try_recv() returned an event, update(event) returned
TuiDrainOneSteady ==
    /\ ~exited
    /\ main_pc = "tui_drain"
    /\ chan # <<>>
    /\ chan' = Tail(chan)
    /\ UNCHANGED <<loopVars, mainVars, aggVars, envVars, classifyVars, filterVars, cap_pc,
                   packet_count, received, stdout, rx_alive>>

\* interactive runs with valid arguments
InitSteady ==
    /\ Init
    /\ ~args.disable_tui
    /\ ~args.list_devices
    /\ validate(args).ok

\* the steps of the main thread
MainThreadSteady ==
    \/ MainValidate
    \/ MainChannel
    \/ MainSpawn
    \/ TuiSetup
    \/ TuiDraw
    \/ TuiPoll
    \/ TuiDrainOneSteady
    \/ TuiDrainEnd
    \/ TuiRestore
    \/ MainTuiFailed
    \/ MainReturnOk

\* the steps of the capture thread
CaptureThreadSteady ==
    \/ CaptureSetup
    \/ \E frame \in Frames : CaptureFrameSteady(frame)
    \/ CaptureTimeout
    \/ CaptureWake
    \/ CaptureError
    \/ ThreadCaptureFailed

NextSteady == MainThreadSteady \/ CaptureThreadSteady \/ PressQuit

\* the scheduler runs each thread again and again; the user and the network
\* owe nothing
SpecSteady ==
    /\ InitSteady
    /\ [][NextSteady]_vars
    /\ WF_vars(MainThreadSteady)
    /\ WF_vars(CaptureThreadSteady)

(***************************************************************************)
(* The program on frames of every kind the decoder tells apart: one        *)
(* interactive run and one text run that decodes.                          *)
(***************************************************************************)
InitDecode ==
    /\ Init
    /\ args \in {Args(FALSE, FALSE, <<>>, FALSE, FALSE, "text"),
                 Args(TRUE, TRUE, <<>>, FALSE, FALSE, "text")}

NextDecode ==
    \/ MainValidate
    \/ MainChannel
    \/ MainSpawn
    \/ MainStartCapture
    \/ CaptureSetup
    \/ \E frame \in DecodeFrames : CaptureFrameCli(frame)
    \/ \E frame \in DecodeFrames : CaptureFrameChannel(frame)
    \/ CaptureTimeout
    \/ CaptureWake
    \/ CaptureError
    \/ MainCaptureFailed
    \/ ThreadCaptureFailed
    \/ TuiSetup
    \/ TuiDraw
    \/ PressQuit
    \/ TuiPoll
    \/ TuiDrainOne
    \/ TuiDrainEnd
    \/ TuiRestore
    \/ MainTuiFailed
    \/ MainReturnOk

SpecDecode == InitDecode /\ [][NextDecode]_vars

(***************************************************************************)
(* The classifier called on one address.                                   *)
(***************************************************************************)
\* the addresses get_provider_for_ip is called with: every known address,
\* and strings that are no known address
IpInputs ==
    UNION {Range(DNS_PROVIDERS[p]) : p \in DOMAIN DNS_PROVIDERS}
        \cup {"192.168.1.10", "9.9.9.10", "1.1.1", "unknown", ""}

InitClassify ==
    /\ AggIdle
    /\ FilterIdle
    /\ MainIdle
    /\ CaptureIdle
    /\ LoopIdle
    /\ classify_call \in [ip : IpInputs, order : ProviderIterOrders]
    /\ classify_ret = <<>>

Classify ==
    /\ classify_ret = <<>>
    /\ classify_ret' = <<get_provider_for_ip(classify_call.ip, classify_call.order)>>
    /\ UNCHANGED <<loopVars, classify_call, aggVars, envVars, filterVars, mainVars,
                   capVars>>

NextClassify == Classify

SpecClassify == InitClassify /\ [][NextClassify]_vars

(***************************************************************************)
(* The capture filter built from one configuration.                        *)
(***************************************************************************)
\* provider names given on the command line
ProviderNameInputs ==
    {"cloudflare", "Google", "QUAD9", "opendns", "adguard", "cleanbrowsing",
     "unknown", "", "bogus"}

\* the longest --dns-providers list of the model
MaxProviderList == 2

ProviderListInputs ==
    {<<>>} \cup {<<l>> : l \in UNION {[1..n -> ProviderNameInputs] : n \in 1..MaxProviderList}}

InitFilter ==
    /\ AggIdle
    /\ ClassifyIdle
    /\ MainIdle
    /\ CaptureIdle
    /\ LoopIdle
    /\ args \in {Args(FALSE, d, l, FALSE, FALSE, "text") :
                    d \in BOOLEAN, l \in ProviderListInputs}
    /\ capture_filter = <<>>

BuildFilter ==
    /\ capture_filter = <<>>
    /\ capture_filter' = <<build_capture_filter(args)>>
    /\ UNCHANGED <<loopVars, args, aggVars, envVars, classifyVars, mainVars, capVars>>

NextFilter == BuildFilter

SpecFilter == InitFilter /\ [][NextFilter]_vars

(***************************************************************************)
(* Properties of the aggregator.                                           *)
(***************************************************************************)
IsSortedDesc(v) == \A i \in 1..(Len(v) - 1) : v[i][2] >= v[i + 1][2]

Keys(v) == {v[i][1] : i \in 1..Len(v)}

\* the number of folded events whose field `field` is `key`
FoldedCount(field, key) == Cardinality({i \in 1..Len(folded) : folded[i][field] = key})

FoldedKeys(field) == {folded[i][field] : i \in 1..Len(folded)}

\* C1: after any sequence of updates (the empty one included) the top-domain
\* list has at most 10 entries, the top-provider list at most 5 and
\* get_top_connections(5) at most 5, and each list is ordered by
\* non-increasing count.
C1_TopListsBoundedAndSorted ==
    /\ Len(top_domains) <= 10
    /\ IsSortedDesc(top_domains)
    /\ Len(top_providers) <= 5
    /\ IsSortedDesc(top_providers)
    /\ \A order \in IterOrders(ConnectionOrder) :
           LET top == get_top_connections(5, order)
           IN Len(top) <= 5 /\ IsSortedDesc(top)

\* C1 witness: more domains, providers and connections were counted than the
\* lists may hold, and the listed domain counts are not all equal
C1_Witness ==
    /\ Cardinality(DOMAIN domain_counts) > 10
    /\ Cardinality(DOMAIN provider_counts) > 5
    /\ Cardinality(DOMAIN connections) > 5
    /\ Len(top_domains) = 10
    /\ top_domains[1][2] > top_domains[10][2]

\* a top list is exactly the `limit` highest-count keys of the events folded
TopKOfFolded(top, field, limit) ==
    /\ \A i \in 1..Len(top) : top[i][2] = FoldedCount(field, top[i][1])
    /\ \A i, j \in 1..Len(top) : i # j => top[i][1] # top[j][1]
    /\ Keys(top) \subseteq FoldedKeys(field)
    /\ Len(top) = Min(limit, Cardinality(FoldedKeys(field)))
    /\ \A u \in FoldedKeys(field) \ Keys(top) :
           \A k \in Keys(top) : FoldedCount(field, u) <= FoldedCount(field, k)

\* example.com x3 from Cloudflare, then foo.com x1 from Google
IsScenario ==
    /\ [i \in 1..Len(folded) |-> folded[i].domain]
           = <<"example.com", "example.com", "example.com", "foo.com">>
    /\ [i \in 1..Len(folded) |-> folded[i].source]
           = <<"1.1.1.1", "1.1.1.1", "1.1.1.1", "8.8.8.8">>

\* C2: after every update the top-domain and top-provider lists are exactly
\* the K highest-count entries of the counters (K = 10 domains, 5 providers):
\* each listed count is the number of events folded with that key, no key is
\* listed twice and no unlisted key has a count greater than a listed one;
\* example.com x3 from Cloudflare then foo.com x1 from Google gives
\* [(example.com,3),(foo.com,1)] and [(cloudflare,3),(google,1)].
C2_TopListsAreTopK ==
    /\ TopKOfFolded(top_domains, "domain", 10)
    /\ TopKOfFolded(top_providers, "provider", 5)
    /\ IsScenario =>
           /\ top_domains = << <<"example.com", 3>>, <<"foo.com", 1>> >>
           /\ [i \in 1..Len(top_providers) |->
                  <<as_str(top_providers[i][1]), top_providers[i][2]>>]
                  = << <<"cloudflare", 3>>, <<"google", 1>> >>

\* C2 witness: some counted domain and some counted provider are left out of
\* the lists, and the listed counts differ
C2_Witness ==
    /\ FoldedKeys("domain") \ Keys(top_domains) # {}
    /\ FoldedKeys("provider") \ Keys(top_providers) # {}
    /\ top_domains[1][2] > top_domains[Len(top_domains)][2]
    /\ top_providers[1][2] > top_providers[Len(top_providers)][2]

\* the scenario of C2 is a state the aggregator reaches
C2_ScenarioReached == IsScenario

\* C3: after n updates the recent-activity buffer holds exactly min(n, 100)
\* events, and they are the most recently folded events, most recent first.
C3_RecentIsLastHundred ==
    LET n == Len(folded)
    IN /\ Len(recent_queries) = Min(n, 100)
       /\ Len(recent_queries) <= 100
       /\ \A i \in 1..Len(recent_queries) : recent_queries[i] = folded[n + 1 - i]

\* C3 witness: more than 100 events were folded, so the oldest was evicted
C3_Witness ==
    /\ Len(folded) > 100
    /\ Len(recent_queries) = 100
    /\ recent_queries[100] # folded[1]

\* C4: right after an update at elapsed time T > W, every sample retained in
\* every provider's series has elapsed time >= T - W.
C4_SlidingWindow ==
    (Len(folded) > 0 /\ last_elapsed > WindowSeconds) =>
        \A p \in DOMAIN provider_history :
            \A i \in 1..Len(provider_history[p]) :
                provider_history[p][i][1] >= last_elapsed - WindowSeconds

\* C4 witness: the update at T > W emptied the series of a provider other
\* than the event's, while the event's provider keeps an older sample
C4_Witness ==
    /\ Len(folded) > 0
    /\ last_elapsed > WindowSeconds
    /\ \E p \in DOMAIN provider_history :
           p # folded[Len(folded)].provider /\ provider_history[p] = <<>>
    /\ Len(provider_history[folded[Len(folded)].provider]) > 1


(***************************************************************************)
(* Properties of the classifier and of the capture filter.                 *)
(***************************************************************************)
\* the providers whose known address set contains ip
ProvidersOf(ip) == {p \in DOMAIN DNS_PROVIDERS : ip \in Range(DNS_PROVIDERS[p])}

\* C5: get_provider_for_ip is total and deterministic: every input string
\* gets a tag; an IP in a provider's known set gets that provider and any
\* other string gets Unknown, whatever the iteration order of the table (no
\* address belongs to two providers).
C5_ClassifyTotalDeterministic ==
    classify_ret # <<>> =>
        LET ip == classify_call.ip
            tag == classify_ret[1]
        IN /\ tag \in Range(DnsProvider)
           /\ \A p \in ProvidersOf(ip) : tag = p
           /\ ProvidersOf(ip) = {} => tag = "Unknown"
           /\ Cardinality(ProvidersOf(ip)) <= 1

\* C5 witness: the second address of a provider was classified under an
\* iteration order that visits that provider last
C5_Witness ==
    /\ classify_ret = <<"Quad9">>
    /\ classify_call.ip = "149.112.112.112"
    /\ classify_call.order[Len(ProviderKeys)] = "Quad9"

\* C5 witness of the other case: a string that is no known address
C5_WitnessUnknown ==
    /\ classify_ret = <<"Unknown">>
    /\ classify_call.ip = "9.9.9.10"

\* the addresses a filter has a host clause for
HostClauses(f) == {f[i + 1] : i \in {j \in 1..(Len(f) - 1) : f[j] = "host"}}

KnownAddresses(providers) ==
    UNION {Range(DNS_PROVIDERS[p]) : p \in Range(providers) \cap DOMAIN DNS_PROVIDERS}

\* C6: for a non-empty list of known providers the capture filter has a host
\* clause for exactly the known addresses of the listed providers and for no
\* other address; for {Cloudflare} these are 1.1.1.1 and 1.0.0.1.
C6_FilterHostsExact ==
    LET providers == get_dns_providers(args)
    IN (/\ capture_filter # <<>>
        /\ providers # <<>>
        /\ "Unknown" \notin Range(providers)) =>
           /\ HostClauses(capture_filter[1]) = KnownAddresses(providers)
           /\ Range(providers) = {"Cloudflare"} =>
                  HostClauses(capture_filter[1]) = {"1.1.1.1", "1.0.0.1"}

\* C6 witness: a filter was built for two different known providers
C6_Witness ==
    /\ capture_filter # <<>>
    /\ get_dns_providers(args) = <<"Google", "Quad9">>
    /\ Cardinality(HostClauses(capture_filter[1])) = 4

\* C6 witness of the example: a filter was built for Cloudflare alone
C6_WitnessCloudflare ==
    /\ capture_filter # <<>>
    /\ get_dns_providers(args) = <<"Cloudflare">>
    /\ capture_filter[1] =
           <<"udp", "port", "53", "and", "(", "host", "1.1.1.1", "or", "host", "1.0.0.1", ")">>


(***************************************************************************)
(* Properties of the capture loop and of main.                             *)
(***************************************************************************)
\* the step is the capture loop receiving a frame
FrameReceived == packet_count' = packet_count + 1

\* C7: a frame shorter than the fixed header prefix (14 + 20 + 8 = 42 bytes)
\* yields no observation and no failure: parse_packet returns None, nothing
\* is printed or sent, the aggregator does not change, nothing is reported
\* and the capture loop goes on to the next frame.
C7_ShortFrameDropped ==
    [][(FrameReceived /\ received'[Len(received')].len < 42) =>
           /\ \A order \in IterOrders(ProviderKeys) :
                  parse_packet(received'[Len(received')], order) = None
           /\ stdout' = stdout
           /\ chan' = chan
           /\ UNCHANGED aggVars
           /\ folded' = folded
           /\ reported' = reported
           /\ exited' = exited
           /\ cap_pc' = "loop"]_vars

\* the capture loop of this run decodes the frames it receives
Decodes == ~args.disable_tui \/ args.dns_providers # <<>> \/ args.dns_only

\* C7 witness: a decoding capture loop received a 41-byte frame, dropped it,
\* and then received and delivered a query
C7_Witness ==
    /\ Decodes
    /\ received = <<ShortFrame, QueryFrame>>
    /\ Len(stdout) + Len(chan) = 1
    /\ cap_pc = "loop"
    /\ ~exited

\* the program did nothing but validate its arguments, and if it has ended,
\* it ended with status 1 after reporting `kind`
OnlyValidated(kind) ==
    /\ effects = {}
    /\ cap_pc = "idle"
    /\ terminal = "cooked"
    /\ ~rx_alive
    /\ capture_filter = <<>>
    /\ main_pc \in {"validate", "done"}
    /\ main_pc = "done" =>
           /\ exited
           /\ exit_code = 1
           /\ exit_cause = "config"
           /\ reported = {kind}

\* some entry of --dns-providers is not the name of a known provider
HasUnknownProvider ==
    /\ args.dns_providers # <<>>
    /\ \E i \in 1..Len(args.dns_providers[1]) :
           to_lowercase(args.dns_providers[1][i]) \notin
               {as_str(p) : p \in DOMAIN DNS_PROVIDERS}

\* the --format value, compared without regard to case, is not text, json or csv
HasInvalidFormat == to_lowercase(args.format) \notin {"text", "json", "csv"}

\* C8: an output-format value outside {text, json, csv} (e.g. "xml") fails
\* validation, and the failure comes before the channel is created, before a
\* thread is spawned and before the capture source or the terminal is touched.
C8_InvalidFormatFailsFirst ==
    HasInvalidFormat =>
        OnlyValidated(IF HasUnknownProvider THEN "Unknown DNS provider"
                      ELSE "Invalid output format")

\* C8 witness: the program ended on --format xml with valid providers
C8_Witness ==
    /\ exited
    /\ args.format = "xml"
    /\ args.dns_providers = << <<"cloudflare">> >>
    /\ reported = {"Invalid output format"}
    /\ exit_code = 1

\* C9: if an entry of the provider list is not the name of a known provider,
\* validation reports a configuration error before capture starts, the
\* process exits non-zero and no partial work is done (no device listing, no
\* capture, no thread, no terminal setup), also when list_devices is set.
C9_UnknownProviderFailsFirst ==
    HasUnknownProvider => OnlyValidated("Unknown DNS provider")

\* C9 witness: the program ended on an unknown provider with list_devices set
C9_Witness ==
    /\ exited
    /\ args.list_devices
    /\ args.dns_providers = << <<"Google", "bogus">> >>
    /\ "list_devices" \notin effects
    /\ exit_code # 0

\* C10: the exit code is 0 exactly on a clean quit of the presentation loop
\* or a completed device listing, and 1 on a validation failure or an
\* unrecoverable capture error, in interactive and non-interactive mode.
C10_ExitCodes ==
    exited =>
        /\ exit_code = 0 <=> exit_cause \in {"quit", "listed"}
        /\ exit_cause \in {"config", "capture_error"} => exit_code = 1
        /\ exit_cause = "quit" => ~args.disable_tui /\ terminal = "cooked"
        /\ exit_cause = "listed" => "list_devices" \in effects
        /\ exit_cause = "config" => ~validate(args).ok
        /\ exit_cause = "capture_error" => cap_pc = "returned_err"

\* C10 witness: in non-interactive mode the capture loop returned an error
\* and the process ended with status 1
C10_Witness ==
    /\ exited
    /\ args.disable_tui
    /\ exit_cause = "capture_error"
    /\ packet_count > 0
    /\ exit_code = 1

\* C10, other exits: a capture error in the capture thread
C10_WitnessThread ==
    exited /\ ~args.disable_tui /\ exit_cause = "capture_error" /\ exit_code = 1

\* C10, other exits: a clean quit
C10_WitnessQuit == exited /\ exit_cause = "quit" /\ exit_code = 0

\* C10, other exits: a completed device listing
C10_WitnessListed == exited /\ exit_cause = "listed" /\ exit_code = 0

(***************************************************************************)
(* The presentation loop and the channel (claims C11 to C20).              *)
(***************************************************************************)
\* where the main thread is while run_tui's loop runs
LoopPcs == {"tui_draw", "tui_poll", "tui_drain"}

\* run_tui has returned to main, or the process has ended
LoopOver == exited \/ main_pc \in {"return_ok", "return_err", "done"}

\* C11: once the loop runs with the terminal in raw / alternate-screen mode,
\* every step that ends the loop's run (run_tui returning Ok or Err, or the
\* process ending from the capture thread) leaves the terminal restored.
C11_TerminalRestoredOnExit ==
    [][/\ (main_pc \in LoopPcs /\ terminal = "raw" /\ LoopOver') => terminal' = "cooked"
       /\ main_pc' = "return_ok" => terminal' = "cooked"]_vars

\* C11, the paths that leave the terminal raw: an I/O error inside the loop
C11_LeftRawByIoError ==
    exited /\ exit_cause = "tui_error" /\ terminal = "raw" /\ folded # <<>>

\* C11, the paths that leave the terminal raw: exit(1) from the capture thread
C11_LeftRawByCaptureExit ==
    exited /\ exit_cause = "capture_error" /\ terminal = "raw" /\ ~args.disable_tui

\* the observation the decoder makes of a received frame, when it makes one
Observed(frame) == parse_packet(frame, ProviderKeys)

\* C13: each query is classified by the resolver it targets: whenever a
\* received frame decodes to an observation and its destination address is in
\* a provider's known set, the observation's provider tag is that provider;
\* the same holds of every event the channeled sink sent.
C13_TaggedByTargetResolver ==
    /\ \A i \in 1..Len(received) :
           LET o == Observed(received[i])
           IN (o.tag = "Some" /\ o.value.query # <<>>) =>
                  \A p \in ProvidersOf(o.value.destination) : o.value.provider = p
    /\ \A i \in 1..Len(emitted) :
           \A p \in ProvidersOf(emitted[i].event.destination) :
               emitted[i].event.provider = p

\* C13, what the code does: a query sent to 1.1.1.1 is tagged Unknown (its
\* source is a local address), and the answer coming from 8.8.8.8 is tagged Google
C13_TaggedBySource ==
    /\ Len(emitted) = 2
    /\ emitted[1].event.destination = "1.1.1.1" /\ emitted[1].event.provider = "Unknown"
    /\ emitted[2].event.source = "8.8.8.8" /\ emitted[2].event.provider = "Google"

\* the events the channel accepted, in the order of their send()
Delivered ==
    LET d == SelectSeq(emitted, LAMBDA x : x.delivered)
    IN [i \in 1..Len(d) |-> d[i].event]

\* C14 as stated: every observation the channeled sink emits is consumed
\* exactly once by the aggregator, never twice and never lost, including
\* those queued when the quit key is handled: once the quit key has ended the
\* loop, every event the channel accepted has been folded.
C14_ConsumedExactlyOnce ==
    /\ Len(folded) + Len(chan) = Len(Delivered)
    /\ (main_pc \in {"tui_restore", "return_ok"} \/ exit_cause = "quit") => folded = Delivered

\* C14 as amended: an event the channel accepted is folded at most once (it
\* is either queued or folded, never both, never twice); one fold consumes
\* one queued event; and when a drain completes, every event accepted so far
\* has been folded exactly once.  Nothing is folded after the loop has ended.
C14_ConsumedAtMostOnce ==
    [][/\ Len(folded') + Len(chan') = Len(Delivered')
       /\ folded' # folded =>
              /\ main_pc = "tui_drain"
              /\ folded' = Append(folded, Head(chan))
              /\ chan' = Tail(chan)
       /\ (main_pc = "tui_drain" /\ main_pc' = "tui_draw") => folded = Delivered
       /\ LoopOver => folded' = folded]_vars

\* C14 witness: two events were emitted and a completed drain has folded each once
C14_Witness ==
    /\ main_pc = "tui_draw"
    /\ Len(emitted) = 2
    /\ folded = Delivered
    /\ Len(folded) = 2
    /\ chan = <<>>

\* C14, the events that are lost: the quit key ended the loop with an event
\* still queued, and a later send failed
C14_LostAtQuit ==
    /\ exit_cause = "quit"
    /\ chan # <<>>
    /\ \E i \in 1..Len(emitted) : ~emitted[i].delivered

\* C15: the channel is FIFO with a single consumer: under every interleaving
\* of the capture thread and the presentation loop, the events folded so far
\* followed by the events still queued are the accepted events in the order
\* of their emission, so the aggregator folds in emission order and the
\* recent-activity buffer is the reverse of that order (its last 100).
C15_FoldedInEmissionOrder ==
    /\ folded \o chan = Delivered
    /\ LET n == Len(folded)
           k == Min(n, RecentLimit)
       IN recent_queries = [i \in 1..k |-> folded[n + 1 - i]]

\* C15 witness: two different events were queued together, then folded in
\* the order of their emission
C15_Witness ==
    /\ Len(drain_mark.queued) = 2
    /\ Len(folded) = 2
    /\ folded[1] # folded[2]
    /\ folded = Delivered
    /\ recent_queries = <<folded[2], folded[1]>>

\* C15, another interleaving: the first event was folded before the second was sent
C15_WitnessInterleaved ==
    /\ Len(folded) = 2
    /\ folded[1] # folded[2]
    /\ drain_mark.base = 1
    /\ Len(drain_mark.queued) = 1

\* the channeled sink sent an event in this step
Emits == Len(emitted') = Len(emitted) + 1

\* C16: the channeled sink never blocks the capture loop.  Whenever the
\* capture loop runs it can take a query frame and emit its observation,
\* whatever the queue holds and wherever the presentation loop is (MaxFrames
\* bounds the run);
\* and an emission is one step that appends the event to the queue while the
\* Receiver lives and discards it afterwards, changes nothing of the main
\* thread, reports nothing, and leaves the capture loop running.
C16_SinkNeverBlocks ==
    [][/\ (CaptureLoopRuns /\ packet_count < MaxFrames) =>
              ENABLED CaptureFrameChannel(QueryFrame)
       /\ Emits =>
              LET e == emitted'[Len(emitted')]
              IN /\ chan' = IF rx_alive THEN Append(chan, e.event) ELSE chan
                 /\ e.delivered = rx_alive
                 /\ cap_pc = "loop" /\ cap_pc' = "loop"
                 /\ UNCHANGED <<mainVars, aggVars, key_pending, drain_mark>>]_vars

\* C16 witness: an event was sent while the presentation loop ran and a later
\* one after the loop had exited and the Receiver was dropped; the failed
\* send was ignored and the capture loop still runs
C16_Witness ==
    /\ CaptureLoopRuns
    /\ Len(emitted) = 2
    /\ emitted[1].delivered
    /\ ~emitted[2].delivered
    /\ main_pc \in {"return_ok", "return_err"}

\* C16, emission during each step of the presentation loop, onto a queue of any length
C16_WitnessWhileDraining ==
    /\ main_pc = "tui_drain"
    /\ Len(chan) = 2
    /\ Len(drain_mark.queued) = 1

\* next_packet() returned Err(TimeoutExpired) in this step
TimesOut == cap_pc = "loop" /\ cap_pc' = "sleep"

\* what a step of the capture loop may not touch when it absorbs something
Absorbed ==
    UNCHANGED <<reported, exited, exit_code, exit_cause, main_pc, terminal, stdout, chan,
                emitted, packet_count, received, aggVars>>

\* C17: a capture read timeout is fully absorbed, with or without
\* continue_on_error: the step reports nothing, ends neither the loop nor the
\* process and emits nothing; the loop sleeps, and the only thing it does
\* next is to poll again.
C17_TimeoutAbsorbed ==
    [][/\ TimesOut => Absorbed
       /\ (cap_pc = "sleep" /\ ~exited) => ENABLED CaptureWake
       /\ (cap_pc = "sleep" /\ cap_pc' # "sleep") => (cap_pc' = "loop" /\ Absorbed)]_vars

\* C17 witness: without continue_on_error the loop timed out after a frame,
\* nothing was reported and the loop is about to poll again
C17_Witness ==
    /\ ~args.continue_on_error
    /\ cap_pc = "sleep"
    /\ Len(received) = 1
    /\ reported = {}
    /\ ~exited

\* C17, a timeout late in the run: every frame was received, then the read timed out
C17_WitnessPolledAgain ==
    /\ ~args.continue_on_error
    /\ cap_pc = "sleep"
    /\ Len(received) = MaxFrames
    /\ reported = {}

\* the capture loop has been entered and has not ended
InCaptureLoop == cap_pc \in {"loop", "sleep"}

\* the message of capture/mod.rs:87
CaptureErrorReported == "Error capturing packet" \in reported

\* C18: on a capture error other than a timeout the loop goes on to the next
\* poll when continue_on_error is set and otherwise ends, returning the
\* error.  So the loop ends only by returning such an error, only when
\* continue_on_error is unset, and then at the first such error.
C18_ErrorContinuesOrTerminates ==
    [][/\ (InCaptureLoop /\ ~InCaptureLoop' /\ ~exited') =>
              /\ cap_pc = "loop" /\ cap_pc' = "returned_err"
              /\ ~args.continue_on_error
              /\ ~CaptureErrorReported /\ CaptureErrorReported'
       /\ (InCaptureLoop /\ ~CaptureErrorReported /\ CaptureErrorReported') =>
              cap_pc' = IF args.continue_on_error THEN "loop" ELSE "returned_err"
       /\ (InCaptureLoop /\ args.continue_on_error) => (exited' \/ InCaptureLoop')]_vars

\* C18 witness: with continue_on_error an error was reported, and the loop
\* went on and received every frame of the run
C18_Witness ==
    /\ args.continue_on_error
    /\ CaptureErrorReported
    /\ cap_pc = "loop"
    /\ Len(received) = MaxFrames
    /\ ~exited

\* C18, without continue_on_error: the loop returned the error after a frame
C18_WitnessTerminated ==
    /\ ~args.continue_on_error
    /\ CaptureErrorReported
    /\ cap_pc = "returned_err"
    /\ Len(received) = 1

\* the main thread moves from one step of run_tui to another
Moves(from) == main_pc = from /\ main_pc' # from /\ ~exited'

\* the events that were queued when the last drain started have been folded,
\* in their order, right after what had been folded before
DrainMarkFolded ==
    LET base == drain_mark.base
        queued == drain_mark.queued
    IN /\ Len(folded) >= base + Len(queued)
       /\ SubSeq(folded, base + 1, base + Len(queued)) = queued

\* C19: an iteration of the presentation loop renders, then polls for the
\* quit key, then drains; the drain folds every event and ends only when the
\* queue is seen empty; so at the next render every event that was queued
\* when the drain started has been folded into the aggregator.
C19_RenderPollDrain ==
    [][/\ Moves("tui_draw") => main_pc' \in {"tui_poll", "return_err"}
       /\ Moves("tui_poll") => main_pc' \in {"tui_drain", "tui_restore", "return_err"}
       /\ Moves("tui_drain") => (main_pc' = "tui_draw" /\ chan = <<>>)
       /\ (main_pc = "tui_drain" /\ chan' # chan /\ Len(chan') <= Len(chan)) =>
              folded' = Append(folded, Head(chan))
       /\ (main_pc = "tui_draw" /\ main_pc' = "tui_poll") => DrainMarkFolded]_vars

\* C19 witness: a drain started with two events queued and has ended; both
\* are folded and the next render is due
C19_Witness ==
    /\ main_pc = "tui_draw"
    /\ Len(drain_mark.queued) = 2
    /\ DrainMarkFolded
    /\ chan = <<>>
    /\ ~exited

\* C19, an event that arrived while the drain ran was folded by it as well
C19_WitnessArrivedDuringDrain ==
    /\ main_pc = "tui_draw"
    /\ drain_mark.base = 0
    /\ Len(drain_mark.queued) = 1
    /\ Len(folded) = 2

\* C12: whenever the quit key is pressed while the presentation loop runs,
\* the loop eventually exits (run_tui goes on to restore the terminal and
\* return, or the process ends), whatever the capture loop is doing.
C12_QuitTerminatesLoop ==
    (key_pending /\ main_pc \in LoopPcs) ~> (main_pc \notin LoopPcs \/ exited)

\* C12, the starved key: q is pressed while the loop drains a queue that the
\* capture loop keeps refilling
C12_QuitPendingInDrain == key_pending /\ main_pc = "tui_drain" /\ chan # <<>> /\ ~exited

\* C20: render cadence holds: while no quit key is pressed every iteration
\* of the presentation loop reaches the next render; the poll returns and
\* the drain terminates, also when nothing arrives and also when the capture
\* loop keeps emitting while the drain runs.
C20_RenderCadenceHolds ==
    (main_pc \in {"tui_poll", "tui_drain"} /\ ~key_pending) ~>
        (main_pc = "tui_draw" \/ key_pending \/ LoopOver)

(***************************************************************************)
(* The decoder on frames that are not plain IPv4, on undecodable frames    *)
(* and on messages with several or no questions (claims C21 to C23, C29).  *)
(***************************************************************************)
\* the frame the capture loop takes in this step
LastFrame == received'[Len(received')]

\* the frame is long enough for parse_packet to decode it
LongEnough(frame) == frame.len > dns_data_start

\* the observation handed on for `frame`, stamped as the sink stamps it
EventOf(frame, order) ==
    channel_handle_dns_packet(parse_packet(frame, order).value, now)

\* the step takes a frame that decodes without failure: parse_packet returns
\* Some, the capture loop goes on, and the observation reaches the sink of
\* the run (the queue of the interactive run, stdout of the text run)
ObservedWithoutFailure ==
    /\ cap_pc' = "loop"
    /\ exited' = exited
    /\ reported' = reported
    /\ \A order \in IterOrders(ProviderKeys) :
           /\ parse_packet(LastFrame, order).tag = "Some"
           /\ ~args.disable_tui =>
                  /\ EventOf(LastFrame, order) # <<>>
                  /\ emitted' = emitted \o sent(EventOf(LastFrame, order))
           /\ args.disable_tui =>
                  stdout' = stdout \o handle_dns_packet(parse_packet(LastFrame, order).value)

\* the addresses and the tag of the observation made of `frame`
AddressesOf(frame) ==
    LET o == parse_packet(frame, ProviderKeys).value
    IN <<o.source, o.destination, o.provider>>

\* C21: a frame of sufficient length that is non-IPv4, VLAN-tagged or carries
\* IPv4 options causes no failure: its source and destination degrade to
\* "unknown", its provider to Unknown, and an observation is still produced
\* when the payload at the fixed offset decodes.
C21_DegradesToUnknown ==
    [][(/\ FrameReceived
        /\ LongEnough(LastFrame)
        /\ LastFrame.ethertype # ETHERTYPE_IPV4 \/ LastFrame.ihl # 5
        /\ LastFrame.dns # <<>>) =>
           /\ ObservedWithoutFailure
           /\ AddressesOf(LastFrame) = <<"unknown", "unknown", "Unknown">>]_vars

\* C21 amended: frames whose EtherType is not IPv4 (VLAN-tagged ones among
\* them) degrade to "unknown" addresses and provider Unknown; an IPv4 frame
\* with options keeps the addresses found at bytes 26..33 and the tag of its
\* source; none of them fails, and each yields an observation when the
\* payload at the fixed offset decodes.
C21_DegradesUnlessIpv4 ==
    [][(/\ FrameReceived
        /\ LongEnough(LastFrame)
        /\ LastFrame.ethertype # ETHERTYPE_IPV4 \/ LastFrame.ihl # 5
        /\ LastFrame.dns # <<>>) =>
           /\ ObservedWithoutFailure
           /\ AddressesOf(LastFrame) =
                  IF LastFrame.ethertype # ETHERTYPE_IPV4
                  THEN <<"unknown", "unknown", "Unknown">>
                  ELSE <<LastFrame.src, LastFrame.dst,
                         get_provider_for_ip(LastFrame.src, ProviderKeys)>>]_vars

\* C21 witness: the interactive run took a VLAN-tagged frame and an IPv4
\* frame with options; the queue holds an observation of each, the first
\* with unknown addresses, the second with the addresses of the frame
C21_Witness ==
    /\ received = <<VlanFrame, OptionsFrame>>
    /\ Len(chan) = 2
    /\ chan[1].source = "unknown" /\ chan[1].destination = "unknown"
    /\ chan[1].provider = "Unknown"
    /\ chan[2].source = "192.168.1.10" /\ chan[2].destination = "8.8.8.8"
    /\ cap_pc = "loop"
    /\ ~exited

\* the step takes a frame and drops it: parse_packet returns None, nothing is
\* handed to either sink, nothing is reported, the aggregator and the capture
\* loop are as before
SilentlyDropped ==
    /\ \A order \in IterOrders(ProviderKeys) : parse_packet(LastFrame, order) = None
    /\ chan' = chan
    /\ emitted' = emitted
    /\ stdout' = stdout
    /\ UNCHANGED aggVars
    /\ folded' = folded
    /\ reported' = reported
    /\ exited' = exited
    /\ cap_pc' = "loop"

\* C22: decode failures are silently dropped and uncounted: a frame with a
\* malformed DNS payload, a short frame, or a frame with non-IPv4 framing
\* produces no observation, is not emitted to the sink and changes nothing
\* of the aggregator.
C22_DecodeFailuresDropped ==
    [][(/\ FrameReceived
        /\ \/ LastFrame.dns = <<>>
           \/ ~LongEnough(LastFrame)
           \/ LastFrame.ethertype # ETHERTYPE_IPV4) => SilentlyDropped]_vars

\* C22 amended: a frame with a malformed DNS payload and a short frame are
\* dropped so, and a frame with non-IPv4 framing is when the bytes at the
\* fixed offset are no DNS message.
C22_UndecodableDropped ==
    [][(/\ FrameReceived
        /\ \/ LastFrame.dns = <<>>
           \/ ~LongEnough(LastFrame)) => SilentlyDropped]_vars

\* C22 witness: the interactive run took a malformed frame and an IPv6 frame
\* while the presentation loop drained; nothing was emitted or folded
C22_Witness ==
    /\ received = <<MalformedFrame, Ipv6Frame>>
    /\ ~args.disable_tui
    /\ emitted = <<>>
    /\ chan = <<>>
    /\ folded = <<>>
    /\ main_pc = "tui_drain"
    /\ cap_pc = "loop"
    /\ ~exited

\* the first question of the message the frame carries
FirstQuestion(frame) == frame.dns[1].questions[1]

\* the frame decodes to a message with at least one question
HasQuestion(frame) ==
    /\ LongEnough(frame)
    /\ frame.dns # <<>>
    /\ frame.dns[1].questions # <<>>

\* the names of the first questions of the frames received so far
FirstNames == {FirstQuestion(received[i])[1] : i \in {j \in 1..Len(received) : HasQuestion(received[j])}}

\* C23: when the decoded message carries one or more questions, the
\* observation's name and type are those of the first question only; later
\* questions produce no observation and touch no counter, so one frame yields
\* at most one observation.
C23_FirstQuestionOnly ==
    [][/\ FrameReceived =>
              /\ Len(emitted') <= Len(emitted) + 1
              /\ HasQuestion(LastFrame) =>
                     /\ \A order \in IterOrders(ProviderKeys) :
                            LET o == parse_packet(LastFrame, order)
                            IN /\ o.tag = "Some"
                               /\ o.value.query =
                                      <<[name |-> FirstQuestion(LastFrame)[1],
                                         query_type |-> FirstQuestion(LastFrame)[2]]>>
                     /\ ~args.disable_tui =>
                            /\ Len(emitted') = Len(emitted) + 1
                            /\ emitted'[Len(emitted')].event.domain
                                   = FirstQuestion(LastFrame)[1]
                            /\ emitted'[Len(emitted')].event.query_type
                                   = FirstQuestion(LastFrame)[2]
                     /\ args.disable_tui =>
                            /\ Len(SelectSeq(stdout', LAMBDA l : l.kind = "DNS Query"))
                                   = Len(SelectSeq(stdout, LAMBDA l : l.kind = "DNS Query")) + 1
                            /\ \E i \in 1..Len(stdout') :
                                   /\ i > Len(stdout)
                                   /\ stdout'[i].kind = "DNS Query"
                                   /\ stdout'[i].name = FirstQuestion(LastFrame)[1]
                                   /\ stdout'[i].text = FirstQuestion(LastFrame)[2]
       /\ DOMAIN domain_counts' \subseteq FirstNames'
       /\ \A i \in 1..Len(recent_queries') : recent_queries'[i].domain \in FirstNames'
       /\ Len(folded') + Len(chan') <= Len(received')]_vars

\* C23 witness: the frame with two questions was received and its
\* observation folded: the first question is counted, the second is not
C23_Witness ==
    /\ TwoQuestionFrame \in Range(received)
    /\ Len(folded) = 1
    /\ folded[1].domain = "d5.test"
    /\ folded[1].query_type = "A"
    /\ DOMAIN domain_counts = {"d5.test"}
    /\ chan = <<>>

\* the frame decodes to a message without a question
NoQuestion(frame) ==
    /\ LongEnough(frame)
    /\ frame.dns # <<>>
    /\ frame.dns[1].questions = <<>>

\* C29: a frame whose DNS message decodes but carries no question (an
\* answer-only message) makes the channeled sink emit no event: the queue
\* and the whole aggregator are as they were before the frame.
C29_NoQuestionNoEvent ==
    [][(FrameReceived /\ ~args.disable_tui /\ NoQuestion(LastFrame)) =>
           /\ \A order \in IterOrders(ProviderKeys) :
                  /\ parse_packet(LastFrame, order).tag = "Some"
                  /\ EventOf(LastFrame, order) = <<>>
           /\ chan' = chan
           /\ emitted' = emitted
           /\ UNCHANGED aggVars
           /\ folded' = folded
           /\ cap_pc' = "loop"]_vars

\* C29 witness: the interactive run took a query and then an answer-only
\* frame; the queue holds the one event of the query
C29_Witness ==
    /\ received = <<QueryFrame, AnswerOnlyFrame>>
    /\ ~args.disable_tui
    /\ Len(emitted) = 1
    /\ Len(chan) = 1
    /\ chan[1].domain = "example.com"
    /\ cap_pc = "loop"

(***************************************************************************)
(* Series, counters and chart of the aggregator (claims C24, C26, C27).    *)
(***************************************************************************)
\* s is what is left of t when a prefix of t is removed
IsSuffixOf(s, t) ==
    /\ Len(s) <= Len(t)
    /\ s = SubSeq(t, Len(t) - Len(s) + 1, Len(t))

\* every series is ordered by non-decreasing time and non-decreasing count
SeriesOrdered(history) ==
    \A p \in DOMAIN history :
        \A i \in 1..(Len(history[p]) - 1) :
            /\ history[p][i][1] <= history[p][i + 1][1]
            /\ history[p][i][2] <= history[p][i + 1][2]

\* the value of a counter map at a key, 0 when the key is absent
CountOf(map, key) == IF key \in DOMAIN map THEN map[key] ELSE 0

\* the series of a provider, empty when the provider has none
SeriesOf(history, p) == IF p \in DOMAIN history THEN history[p] ELSE <<>>

\* the step is one update(event)
Folds == Len(folded') = Len(folded) + 1

\* C24: every provider's series is ordered by non-decreasing elapsed time
\* and its cumulative count is non-decreasing along the series; the sample an
\* update appends carries the provider's previous cumulative count plus one;
\* pruning removes a prefix only: what a series retains after an update is a
\* suffix of what it held with the new sample appended, unaltered and in order.
C24_SeriesMonotone ==
    [][Folds =>
           LET e == folded'[Len(folded')]
               sample == <<last_elapsed', CountOf(queries_per_provider, e.provider) + 1>>
           IN /\ SeriesOrdered(provider_history')
              /\ DOMAIN provider_history' = DOMAIN provider_history \cup {e.provider}
              /\ \A p \in DOMAIN provider_history' :
                     IsSuffixOf(provider_history'[p],
                                IF p = e.provider
                                THEN SeriesOf(provider_history, p) \o <<sample>>
                                ELSE SeriesOf(provider_history, p))
              /\ provider_history'[e.provider] # <<>>
              /\ provider_history'[e.provider][Len(provider_history'[e.provider])] = sample]_vars

\* C24 witness: a provider's series has lost its oldest sample to pruning
\* and retains several later ones, taken at different times
C24_Witness ==
    \E p \in DOMAIN provider_history :
        /\ Len(provider_history[p]) >= 2
        /\ provider_history[p][1][2] > 1
        /\ provider_history[p][1][1] < provider_history[p][2][1]

\* the sum of the values of a counter map
RECURSIVE SumValues(_)
SumValues(map) ==
    IF DOMAIN map = {} THEN 0
    ELSE LET k == CHOOSE x \in DOMAIN map : TRUE
         IN map[k] + SumValues([x \in DOMAIN map \ {k} |-> map[x]])

\* no entry of the counter map `before` is missing from or smaller in `after`
NeverDecreases(before, after) ==
    \A k \in DOMAIN before : k \in DOMAIN after /\ after[k] >= before[k]

\* C26: conservation of counts.  After n folded events the values of
\* domain_counts sum to n, and so do those of provider_counts and of
\* connections; provider_counts equals the chart counter
\* queries_per_provider entry for entry; and no update decreases or removes
\* an entry of any of the four.
C26_CountsConserved ==
    [][Folds =>
           /\ SumValues(domain_counts') = Len(folded')
           /\ SumValues(provider_counts') = Len(folded')
           /\ SumValues(connections') = Len(folded')
           /\ provider_counts' = queries_per_provider'
           /\ NeverDecreases(domain_counts, domain_counts')
           /\ NeverDecreases(provider_counts, provider_counts')
           /\ NeverDecreases(connections, connections')
           /\ NeverDecreases(queries_per_provider, queries_per_provider')]_vars

\* C26 witness: several events were folded, over two domains, two providers
\* and two connections, one domain more than once
C26_Witness ==
    /\ Len(folded) = 4
    /\ Cardinality(DOMAIN domain_counts) = 2
    /\ Cardinality(DOMAIN provider_counts) = 2
    /\ Cardinality(DOMAIN connections) = 2
    /\ \E d \in DOMAIN domain_counts : domain_counts[d] = 3

\* the names of the datasets the chart is drawn with in this state
ChartNames ==
    LET datasets == create_chart_datasets(provider_history)
    IN {datasets[i].name : i \in 1..Len(datasets)}

\* C27: the chart has a dataset for every provider with at least one
\* retained sample in its series and for no provider whose series is empty
\* or absent, for every member of the provider enumeration.
C27_ChartCoversEveryProvider ==
    \A i \in 1..Len(DnsProvider) :
        (SeriesOf(provider_history, DnsProvider[i]) # <<>>) <=> (as_str(DnsProvider[i]) \in ChartNames)

\* C27, what the code does: CleanBrowsing has retained samples and no dataset
C27_CleanBrowsingNotCharted ==
    /\ SeriesOf(provider_history, "CleanBrowsing") # <<>>
    /\ "cleanbrowsing" \notin ChartNames
    /\ "cloudflare" \in ChartNames

(***************************************************************************)
(* The filter handed to the capture source (claims C25, C28).              *)
(***************************************************************************)
\* the filter is a match of the DNS port with no host clause
PortOnly(f) ==
    /\ \E i \in 1..(Len(f) - 1) : f[i] = "port" /\ f[i + 1] = "53"
    /\ HostClauses(f) = {}

\* the capture source was opened in a run without a provider list, and the
\* filter installed
FilterInstalledNoProviders == capture_filter # <<>> /\ get_dns_providers(args) = <<>>

C25_WitnessDnsOnly ==
    /\ FilterInstalledNoProviders
    /\ args.dns_only /\ args.disable_tui /\ args.continue_on_error
    /\ PortOnly(capture_filter[1])
    /\ cap_pc = "loop"

\* the provider names of the run, as given
ProviderNames == IF args.dns_providers = <<>> THEN <<>> ELSE args.dns_providers[1]

\* the names validate accepts, in lower case
KnownNames == {"cloudflare", "google", "opendns", "quad9", "adguard", "cleanbrowsing"}

\* the filter has the empty host disjunction "udp port 53 and ()"
EmptyDisjunction(f) == \E i \in 1..(Len(f) - 1) : f[i] = "(" /\ f[i + 1] = ")"

\* C28: whenever validation succeeds with a provider list configured, the
\* list converts to known providers only (never Unknown: the name "unknown"
\* and the empty name are rejected; names are matched without regard to
\* case), and the filter built from it has at least one host clause and is
\* never the empty disjunction "udp port 53 and ()".
C28_ValidListsGiveHostClauses ==
    (capture_filter # <<>> /\ args.dns_providers # <<>>) =>
        /\ validate(args).ok <=>
               \A i \in 1..Len(ProviderNames) : to_lowercase(ProviderNames[i]) \in KnownNames
        /\ validate(args).ok =>
               /\ \A p \in Range(get_dns_providers(args)) :
                      p # "Unknown" /\ p \in DOMAIN DNS_PROVIDERS
               /\ HostClauses(capture_filter[1]) # {}
               /\ ~EmptyDisjunction(capture_filter[1])
               /\ capture_filter[1] # <<"udp", "port", "53", "and", "(", ")">>

\* C28 witness: a valid list given in mixed case built a filter with the
\* four addresses of its two providers
C28_Witness ==
    /\ capture_filter # <<>>
    /\ args.dns_providers = << <<"QUAD9", "cleanbrowsing">> >>
    /\ validate(args).ok
    /\ HostClauses(capture_filter[1])
           = {"9.9.9.9", "149.112.112.112", "185.228.168.9", "185.228.169.9"}

\* C28, the names "unknown" and "" do not pass validation
C28_WitnessRejected ==
    /\ capture_filter # <<>>
    /\ args.dns_providers = << <<"unknown", "">> >>
    /\ ~validate(args).ok

====
